---- MODULE Spec2Model ----
(***************************************************************************)
(* Model of the YouTube chapter downloader: the Streamlit application      *)
(* (web_yt_downloader.py) and the command-line script (yt_download.py).    *)
(*                                                                         *)
(* Python strings are sequences of one-character strings; None is the      *)
(* empty tuple and a present value x is the one-element tuple <<x>>.       *)
(***************************************************************************)
EXTENDS Integers, Sequences, FiniteSets, TLC

VARIABLES
    flow,              \* "web" | "cli" | "pure": which program is running
    pc,                \* position in the running program
    button,            \* web: the button pressed in this script run
    ffmpeg_available,  \* web: the module-level check_ffmpeg() result;
                       \* cli: whether the ffmpeg executable can be started
    info,              \* the metadata dict, as far as "description" goes
    description,       \* the local variable description (None or <<text>>)
    chapters,          \* list of (title, start) tuples
    video_path,        \* None or <<"video">>: the retrieved media file
    i,                 \* loop index of the splitting loop (0-based)
    jobs,              \* per loop iteration: range, command line, exit code
    folder,            \* file names present in chapters_folder
    archive,           \* None or <<set of file names in the zip>>
    raised,            \* "none" or the exception that ended the run
    fn,                \* pure-function harness: function applied
    arg,               \* pure-function harness: its input
    ret,               \* pure-function harness: its result
    clear_cache_first, \* download_video: its parameter
    dl_pc,             \* download_video: position ("off" when not running)
    attempt,           \* download_video: the loop variable attempt
    attempts,          \* download_video: what each loop iteration did
    clear_calls,       \* download_video: calls of clear_yt_dlp_cache so far
    dl_result          \* download_video: None, or what it returned / raised

vars == <<flow, pc, button, ffmpeg_available, info, description,
          chapters, video_path, i, jobs, folder, archive, raised, fn, arg, ret,
          clear_cache_first, dl_pc, attempt, attempts, clear_calls, dl_result>>

pipeVars == <<flow, pc, button, ffmpeg_available, info,
              description, chapters, video_path, i, jobs, folder, archive,
              raised>>

pureVars == <<fn, arg, ret>>

dlVars == <<clear_cache_first, dl_pc, attempt, attempts, clear_calls,
            dl_result>>

\* ------------------------------------------------------------------------
\* Bounds of the model
\* ------------------------------------------------------------------------
MaxFieldCount == 4   \* colon-separated fields per timestamp token
MaxOffset == 36700   \* largest start offset formatted and re-parsed
MaxLines == 3        \* description lines in the extractor harness
MaxDescLines == 3    \* description lines in the pipeline

\* ------------------------------------------------------------------------
\* Python values
\* ------------------------------------------------------------------------
None == <<>>
Some(x) == <<x>>

Digits == <<"0", "1", "2", "3", "4", "5", "6", "7", "8", "9">>
IsDigit(c) == \E d \in 1..10 : Digits[d] = c
DigitVal(c) == (CHOOSE d \in 1..10 : Digits[d] = c) - 1
Whitespace == {" ", "\t"}
Dashes == {"-", "en-dash", "em-dash"}   \* the class [-–—]

Min(a, b) == IF a < b THEN a ELSE b

\* str(n) for n >= 0
RECURSIVE IntToStr(_)
IntToStr(n) ==
    IF n < 10 THEN <<Digits[n + 1]>>
    ELSE IntToStr(n \div 10) \o <<Digits[(n % 10) + 1]>>

\* f"{n:02d}" for n >= 0
Pad2(n) == IF n < 10 THEN <<"0">> \o IntToStr(n) ELSE IntToStr(n)

\* index of the first occurrence of c in s, 0 when there is none
FirstIndex(s, c) ==
    IF \E k \in 1..Len(s) : s[k] = c
    THEN CHOOSE k \in 1..Len(s) : s[k] = c /\ \A j \in 1..(k - 1) : s[j] # c
    ELSE 0

\* s.split(sep) for a one-character sep: empty fields are kept
RECURSIVE Split(_, _)
Split(s, sep) ==
    LET p == FirstIndex(s, sep)
    IN  IF p = 0 THEN <<s>>
        ELSE <<SubSeq(s, 1, p - 1)>> \o Split(SubSeq(s, p + 1, Len(s)), sep)

\* s.splitlines(): no line for the empty text, none after a final newline
RECURSIVE Splitlines(_)
Splitlines(s) ==
    LET p == FirstIndex(s, "\n")
    IN  IF s = <<>> THEN <<>>
        ELSE IF p = 0 THEN <<s>>
        ELSE <<SubSeq(s, 1, p - 1)>> \o Splitlines(SubSeq(s, p + 1, Len(s)))

\* s.strip()
RECURSIVE Strip(_)
Strip(s) ==
    IF s = <<>> THEN s
    ELSE IF s[1] \in Whitespace THEN Strip(Tail(s))
    ELSE IF s[Len(s)] \in Whitespace THEN Strip(SubSeq(s, 1, Len(s) - 1))
    ELSE s

\* int(field): None stands for the ValueError of a non-numeric field.
\* (Only unsigned decimal fields are modelled as numeric.)
RECURSIVE DecimalValue(_)
DecimalValue(field) ==
    IF field = <<>> THEN 0
    ELSE DecimalValue(SubSeq(field, 1, Len(field) - 1)) * 10
         + DigitVal(field[Len(field)])

ParseInt(field) ==
    IF field # <<>> /\ \A k \in 1..Len(field) : IsDigit(field[k])
    THEN Some(DecimalValue(field))
    ELSE None

\* ------------------------------------------------------------------------
\* time_to_seconds
\* ------------------------------------------------------------------------
Returned(v) == [raised |-> "none", value |-> Some(v)]
Raise(e) == [raised |-> e, value |-> None]

time_to_seconds_minutes_as_hours(time_str) ==
    LET fields == Split(time_str, ":")
        parts == [k \in 1..Len(fields) |-> ParseInt(fields[k])]
    IN  IF \E k \in 1..Len(parts) : parts[k] = None
        THEN Raise("ValueError: invalid literal for int()")
        ELSE IF Len(parts) = 3
        THEN Returned(parts[1][1] * 3600 + parts[2][1] * 60 + parts[3][1])
        ELSE IF Len(parts) = 2
        THEN Returned(parts[1][1] * 3600 + parts[2][1])
        ELSE Raise("ValueError: Invalid timestamp")

time_to_seconds(time_str) ==
    LET fields == Split(time_str, ":")
        parts == [k \in 1..Len(fields) |-> ParseInt(fields[k])]
    IN  IF \E k \in 1..Len(parts) : parts[k] = None
        THEN Raise("ValueError: invalid literal for int()")
        ELSE IF Len(parts) = 3
        THEN Returned(parts[1][1] * 3600 + parts[2][1] * 60 + parts[3][1])
        ELSE IF Len(parts) = 2
        THEN Returned(0 * 3600 + parts[1][1] * 60 + parts[2][1])
        ELSE Raise("ValueError: Invalid timestamp")

\* ------------------------------------------------------------------------
\* The chapter pattern  (\d{1,2}:\d{2}(?::\d{2})?)\s*[-–—]\s*(.+)
\* ------------------------------------------------------------------------
CharAt(line, k) == IF k >= 1 /\ k <= Len(line) THEN line[k] ELSE "EOL"

\* first position >= k that holds no whitespace (Len + 1 at the end)
RECURSIVE SkipWs(_, _)
SkipWs(line, k) ==
    IF k <= Len(line) /\ line[k] \in Whitespace THEN SkipWs(line, k + 1) ELSE k

\* One way through the pattern from position p: nd leading digits, the
\* optional :SS group taken or not.  None, or the two groups.
TryMatch(line, p, nd, opt) ==
    LET a == p + nd                       \* the first colon
        e == IF opt THEN a + 6 ELSE a + 3 \* first position after group 1
        q == SkipWs(line, e)              \* the separator
        r == Min(SkipWs(line, q + 1), Len(line))  \* \s* leaves .+ one char
    IN  IF /\ \A k \in p..(a - 1) : IsDigit(CharAt(line, k))
           /\ CharAt(line, a) = ":"
           /\ IsDigit(CharAt(line, a + 1)) /\ IsDigit(CharAt(line, a + 2))
           /\ opt => /\ CharAt(line, a + 3) = ":"
                     /\ IsDigit(CharAt(line, a + 4))
                     /\ IsDigit(CharAt(line, a + 5))
           /\ CharAt(line, q) \in Dashes
           /\ q < Len(line)
        THEN Some([ts |-> SubSeq(line, p, e - 1),
                   title |-> SubSeq(line, r, Len(line))])
        ELSE None

\* the alternatives at p in the order the backtracking matcher tries them
MatchAt(line, p) ==
    IF TryMatch(line, p, 2, TRUE) # None THEN TryMatch(line, p, 2, TRUE)
    ELSE IF TryMatch(line, p, 2, FALSE) # None THEN TryMatch(line, p, 2, FALSE)
    ELSE IF TryMatch(line, p, 1, TRUE) # None THEN TryMatch(line, p, 1, TRUE)
    ELSE TryMatch(line, p, 1, FALSE)

\* pattern.search(line): the match at the leftmost position that has one
PatternSearch(line) ==
    LET starts == {p \in 1..Len(line) : MatchAt(line, p) # None}
    IN  IF starts = {} THEN None
        ELSE MatchAt(line, CHOOSE p \in starts : \A o \in starts : p <= o)

\* ------------------------------------------------------------------------
\* extract_chapters
\* ------------------------------------------------------------------------
Chapter(title, start) == [title |-> title, start |-> start]

\* the for loop over the lines: acc is the record being returned
RECURSIVE ExtractLoop(_, _)
ExtractLoop(lines, acc) ==
    IF lines = <<>> THEN Returned(acc)
    ELSE LET match == PatternSearch(Head(lines))
         IN  IF match = None THEN ExtractLoop(Tail(lines), acc)
             ELSE LET secs == time_to_seconds(match[1].ts)
                  IN  IF secs.raised # "none" THEN Raise(secs.raised)
                      ELSE ExtractLoop(Tail(lines),
                               Append(acc, Chapter(Strip(match[1].title),
                                                   secs.value[1])))

\* a variant that keeps one chapter per start offset
RECURSIVE ExtractLoopDedup(_, _)
ExtractLoopDedup(lines, acc) ==
    IF lines = <<>> THEN Returned(acc)
    ELSE LET match == PatternSearch(Head(lines))
         IN  IF match = None THEN ExtractLoopDedup(Tail(lines), acc)
             ELSE LET secs == time_to_seconds(match[1].ts)
                  IN  IF secs.raised # "none" THEN Raise(secs.raised)
                      ELSE IF \E k \in 1..Len(acc) : acc[k].start = secs.value[1]
                      THEN ExtractLoopDedup(Tail(lines), acc)
                      ELSE ExtractLoopDedup(Tail(lines),
                               Append(acc, Chapter(Strip(match[1].title),
                                                   secs.value[1])))

extract_chapters_dedup(descr) ==
    IF descr = None
    THEN Raise("AttributeError: 'NoneType' object has no attribute 'splitlines'")
    ELSE ExtractLoopDedup(Splitlines(descr[1]), <<>>)

\* descr is None or <<text>>
extract_chapters(descr) ==
    IF descr = None
    THEN Raise("AttributeError: 'NoneType' object has no attribute 'splitlines'")
    ELSE ExtractLoop(Splitlines(descr[1]), <<>>)

\* ------------------------------------------------------------------------
\* The chapter list display: start offset -> H:MM:SS or M:SS
\* ------------------------------------------------------------------------
format_start_no_hours(start) ==
    LET seconds == start % 60
        minutes == (start \div 60) % 60
    IN  IntToStr(minutes) \o <<":">> \o Pad2(seconds)

format_start(start) ==
    LET seconds == start % 60
        minutes0 == start \div 60
        hours == minutes0 \div 60
        minutes == minutes0 % 60
    IN  IF hours > 0
        THEN IntToStr(hours) \o <<":">> \o Pad2(minutes) \o <<":">> \o Pad2(seconds)
        ELSE IntToStr(minutes) \o <<":">> \o Pad2(seconds)

\* ------------------------------------------------------------------------
\* Inputs of the pure functions
\* ------------------------------------------------------------------------
FieldVals == {0, 7, 75, 90}

FieldSeqs == UNION {[1..n -> FieldVals] : n \in 1..MaxFieldCount}

\* a field written with at least w digits
FieldText(v, w) == IF w = 2 THEN Pad2(v) ELSE IntToStr(v)

RECURSIVE JoinWith(_, _)
JoinWith(strs, sep) ==
    IF strs = <<>> THEN <<>>
    ELSE IF Len(strs) = 1 THEN strs[1]
    ELSE strs[1] \o <<sep>> \o JoinWith(Tail(strs), sep)

TokenOf(fields, w) ==
    JoinWith([k \in 1..Len(fields) |-> FieldText(fields[k], w)], ":")

\* Description lines, each with the chapter the pattern is to find in it
\* (None for a line that does not have the timestamp-separator-title shape).
Line(text, expect) == [text |-> text, expect |-> expect]

LineIntro == Line(<<"0", ":", "0", "0", " ", "-", " ", "I", "n">>,
                  Some(Chapter(<<"I", "n">>, 0)))
LineEnDash == Line(<<"1", ":", "3", "0", " ", "en-dash", " ", "A", "-", "B">>,
                   Some(Chapter(<<"A", "-", "B">>, 90)))
LineDup == Line(<<"0", "1", ":", "3", "0", "-", "D", "u", "p">>,
                Some(Chapter(<<"D", "u", "p">>, 90)))
LineHours == Line(<<"1", ":", "0", "2", ":", "0", "3", " ", "em-dash", " ", "X", " ">>,
                  Some(Chapter(<<"X">>, 3723)))
LineBlankTitle == Line(<<"3", ":", "0", "0", " ", "-", " ">>,
                       Some(Chapter(<<>>, 180)))
LineEmbedded == Line(<<"a", "t", " ", "1", "2", "3", ":", "4", "5", "-", "x">>,
                     Some(Chapter(<<"x">>, 1425)))
LineNotes == Line(<<"n", "o", "t", "e", "s">>, None)
LineEmpty == Line(<<>>, None)
LineOneDigitSeconds == Line(<<"1", ":", "5", " ", "-", " ", "b", "a", "d">>, None)
LineNoSeparator == Line(<<"2", ":", "0", "0", " ", "x">>, None)
LineNoTitle == Line(<<"3", ":", "0", "0", " ", "-">>, None)

LinePool == {LineIntro, LineEnDash, LineDup, LineHours, LineBlankTitle,
             LineEmbedded, LineNotes, LineEmpty, LineOneDigitSeconds,
             LineNoSeparator, LineNoTitle}

LineSeqs(pool, n) == UNION {[1..k -> pool] : k \in 0..n}

\* the description text made of the lines, one per line
TextOf(lines) == JoinWith([k \in 1..Len(lines) |-> lines[k].text], "\n")

\* the chapters of the lines that have one, in line order
RECURSIVE ExpectedChapters(_)
ExpectedChapters(lines) ==
    IF lines = <<>> THEN <<>>
    ELSE Head(lines).expect \o ExpectedChapters(Tail(lines))

\* ------------------------------------------------------------------------
\* Pure-function harness: one application per behaviour
\* ------------------------------------------------------------------------
PipeOff ==
    /\ flow = "pure" /\ pc = "off" /\ button = "none"
    /\ ffmpeg_available = FALSE
    /\ info = [has_description |-> FALSE, description |-> None]
    /\ description = None /\ chapters = <<>> /\ video_path = None
    /\ i = 0 /\ jobs = <<>> /\ folder = {} /\ archive = None
    /\ raised = "none"

PureIdle == fn = "idle" /\ arg = None /\ ret = None

\* download_video is not being followed step by step
DownloadOff ==
    /\ clear_cache_first = FALSE /\ dl_pc = "off" /\ attempt = 0
    /\ attempts = <<>> /\ clear_calls = 0 /\ dl_result = None

InitPure == PipeOff /\ PureIdle /\ DownloadOff

CallTimeToSeconds ==
    /\ fn = "idle"
    /\ \E fields \in FieldSeqs, w \in {1, 2} :
          /\ arg' = [fields |-> fields, token |-> TokenOf(fields, w)]
          /\ ret' = time_to_seconds(TokenOf(fields, w))
    /\ fn' = "time_to_seconds"
    /\ UNCHANGED <<pipeVars, dlVars>>

CallFormatThenParse ==
    /\ fn = "idle"
    /\ \E s \in 0..MaxOffset :
          /\ arg' = [start |-> s, time_str |-> format_start(s)]
          /\ ret' = time_to_seconds(format_start(s))
    /\ fn' = "format_then_parse"
    /\ UNCHANGED <<pipeVars, dlVars>>

CallExtractChapters ==
    /\ fn = "idle"
    /\ \E lines \in LineSeqs(LinePool, MaxLines) :
          /\ arg' = [lines |-> lines, text |-> TextOf(lines)]
          /\ ret' = extract_chapters(Some(TextOf(lines)))
    /\ fn' = "extract_chapters"
    /\ UNCHANGED <<pipeVars, dlVars>>

NextPure == CallTimeToSeconds \/ CallFormatThenParse \/ CallExtractChapters

SpecPure == InitPure /\ [][NextPure]_vars

\* ------------------------------------------------------------------------
\* C5: time_to_seconds of a token of non-negative integer fields returns
\* M*60 + S for two fields (M, S) and H*3600 + M*60 + S for three fields
\* (H, M, S), without clamping minutes or seconds; for one field or for four
\* or more it raises the "Invalid timestamp" ValueError and returns nothing.
\* ------------------------------------------------------------------------
C5_TimeToSeconds ==
    fn = "time_to_seconds" =>
        LET f == arg.fields
        IN  /\ Len(f) = 2 => ret = Returned(f[1] * 60 + f[2])
            /\ Len(f) = 3 => ret = Returned(f[1] * 3600 + f[2] * 60 + f[3])
            /\ Len(f) \notin {2, 3} =>
                  /\ ret.raised = "ValueError: Invalid timestamp"
                  /\ ret.value = None

C5_Witness ==
    /\ fn = "time_to_seconds"
    /\ arg.token = <<"7", "5", ":", "9", "0">>
    /\ ret = Returned(4590)

\* ------------------------------------------------------------------------
\* C6: extract_chapters returns one chapter per line of the timestamp-
\* separator-title shape and none for any other line, in line order: no
\* sorting by start offset, no merging or dropping of duplicate timestamps.
\* ------------------------------------------------------------------------
C6_ExtractInLineOrder ==
    fn = "extract_chapters" =>
        /\ ret = Returned(ExpectedChapters(arg.lines))
        /\ Len(ret.value[1]) =
              Cardinality({k \in 1..Len(arg.lines) : arg.lines[k].expect # None})

C6_Witness ==
    /\ fn = "extract_chapters"
    /\ arg.lines = <<LineEnDash, LineNotes, LineDup>>
    /\ ret.value[1] = <<Chapter(<<"A", "-", "B">>, 90), Chapter(<<"D", "u", "p">>, 90)>>

\* ------------------------------------------------------------------------
\* C10: a start offset formatted as the chapter list display formats it
\* (H:MM:SS when hours > 0, M:SS otherwise) parses back, with
\* time_to_seconds, to the same offset.
\* ------------------------------------------------------------------------
C10_RoundTrip ==
    fn = "format_then_parse" => ret = Returned(arg.start)

C10_Witness ==
    /\ fn = "format_then_parse"
    /\ arg.start = 3661
    /\ arg.time_str = <<"1", ":", "0", "1", ":", "0", "1">>
    /\ ret = Returned(3661)

\* ========================================================================
\* The pipeline: the Streamlit script run and download_youtube_video
\* ========================================================================
FilenameLimit == 50
ForbiddenChars == {"\\", "/", "*", "?", ":", "\"", "<", ">", "|"}
ExitCodes == {0, 1}
VideoFile == Some("video")

RECURSIVE Rep(_, _)
Rep(c, n) == IF n = 0 THEN <<>> ELSE <<c>> \o Rep(c, n - 1)

\* a chapter title with a character unsafe in file names
LineSlash == Line(<<"1", ":", "0", "0", " ", "-", " ", "A", "/", "B">>,
                  Some(Chapter(<<"A", "/", "B">>, 60)))
\* a 52-character title: 51 characters are left once the "?" is removed
LongTitle == Rep("x", 49) \o <<"?", "y", "z">>
LineLong == Line(<<"2", ":", "0", "0", " ", "-", " ">> \o LongTitle,
                 Some(Chapter(LongTitle, 120)))

PipeLinePool == {LineIntro, LineSlash, LineLong, LineNotes}

\* the metadata a video can have: no description key, a null description,
\* or a description text
Infos ==
    {[has_description |-> FALSE, description |-> None],
     [has_description |-> TRUE, description |-> None]}
    \cup {[has_description |-> TRUE, description |-> Some(TextOf(ls))] :
            ls \in LineSeqs(PipeLinePool, MaxDescLines)}

\* info.get("description", "")
InfoGetDescription(d) ==
    IF d.has_description THEN d.description ELSE Some(<<>>)

\* the truth value of an int-or-None in an if statement
Truthy(x) == x # None /\ x[1] # 0

\* web: end = chapters[i+1][1] if i+1 < len(chapters) else None  (k = i+1)
RangeEndSelf(chs, k) ==
    IF k + 1 <= Len(chs) THEN Some(chs[k].start) ELSE None

RangeEnd(chs, k) ==
    IF k + 1 <= Len(chs) THEN Some(chs[k + 1].start) ELSE None

\* cli: duration = chapters[i+1][1] - start_time, or None for the last one
CliDuration(chs, k) ==
    IF k <= Len(chs) - 1 THEN Some(chs[k + 1].start - chs[k].start) ELSE None

\* web: the "-t" argument, None when the command line has none
WebDurationArg(end, start) ==
    IF Truthy(end) THEN Some(end[1] - start) ELSE None

\* cli: the "-t" argument, None when the command line has none
CliDurationArg(duration) ==
    IF Truthy(duration) THEN duration ELSE None

\* re.sub(r'[\\/*?:"<>|]', "", title)[:50]
SafeTitle(title) ==
    LET kept == SelectSeq(title, LAMBDA c : c \notin ForbiddenChars)
    IN  SubSeq(kept, 1, Min(Len(kept), FilenameLimit))

\* f"{i+1:02d} - {fragment}.mp4"  (k = i+1)
OutputFile(k, fragment) ==
    Pad2(k) \o <<" ", "-", " ">> \o fragment \o <<".", "m", "p", "4">>

\* the files in the output folder after ffmpeg has run: a zero exit leaves
\* the output file; a non-zero exit leaves it (partial) or not
FolderAfter(files, output_file, exit, partial) ==
    IF exit = 0 \/ partial THEN files \cup {output_file} ELSE files

Job(k, title, start, end, duration, t_arg, fragment, exit) ==
    [index |-> k, title |-> title, start |-> start,
     end |-> end,              \* web: the local variable end
     duration |-> duration,    \* cli: the local variable duration
     ss_arg |-> start, t_arg |-> t_arg,
     fragment |-> fragment, output_file |-> OutputFile(k, fragment),
     exit |-> exit]

Init ==
    /\ PureIdle /\ DownloadOff
    /\ flow \in {"web", "cli"}
    /\ pc = IF flow = "web" THEN "fetch_info" ELSE "cli_download"
    /\ button \in IF flow = "web" THEN {"none", "full_video", "chapters_zip"}
                  ELSE {"none"}
    /\ ffmpeg_available \in BOOLEAN
    /\ info \in Infos
    /\ description = None /\ chapters = <<>> /\ video_path = None
    /\ i = 0 /\ jobs = <<>> /\ folder = {} /\ archive = None
    /\ raised = "none"

\* ------------------------------------------------------------------------
\* web_yt_downloader.py: one script run with a URL entered
\* ------------------------------------------------------------------------
\* fetch_info(url) under try/except: a failure is shown and the run stops
WebFetchInfo ==
    /\ flow = "web" /\ pc = "fetch_info"
    /\ \/ pc' = "extract" /\ raised' = "none"
       \/ pc' = "stopped" /\ raised' = "fetch_info failed"
    /\ UNCHANGED <<flow, button, ffmpeg_available, info, description,
                   chapters, video_path, i, jobs, folder, archive>>
    /\ UNCHANGED <<pureVars, dlVars>>

\* description = info.get("description", ""); chapters = extract_chapters(..)
WebExtractChapters ==
    /\ flow = "web" /\ pc = "extract"
    /\ description' = InfoGetDescription(info)
    /\ LET r == extract_chapters(description')
       IN  IF r.raised # "none"
           THEN pc' = "raised" /\ raised' = r.raised /\ chapters' = chapters
           ELSE pc' = "full_video" /\ raised' = raised
                /\ chapters' = r.value[1]
    /\ UNCHANGED <<flow, button, ffmpeg_available, info, video_path, i, jobs,
                   folder, archive>>
    /\ UNCHANGED <<pureVars, dlVars>>

\* the "Full Video Download" block: download_video under try/except
WebFullVideo ==
    /\ flow = "web" /\ pc = "full_video"
    /\ IF button = "full_video"
       THEN \/ video_path' = VideoFile
            \/ video_path' = None
       ELSE video_path' = video_path
    /\ pc' = "chapters_section"
    /\ UNCHANGED <<flow, button, ffmpeg_available, info, description,
                   chapters, i, jobs, folder, archive, raised>>
    /\ UNCHANGED <<pureVars, dlVars>>

\* the "Chapters" block up to the button test
WebChaptersSection ==
    /\ flow = "web" /\ pc = "chapters_section"
    /\ pc' = IF chapters = <<>> THEN "no_chapters"
             ELSE IF ~ffmpeg_available THEN "needs_ffmpeg"
             ELSE IF button = "chapters_zip" THEN "download_video"
             ELSE "shown"
    /\ UNCHANGED <<flow, button, ffmpeg_available, info, description,
                   chapters, video_path, i, jobs, folder, archive, raised>>
    /\ UNCHANGED <<pureVars, dlVars>>

\* where the try block of the chapter processing goes after download_video
AfterDownloadIgnoringFailure(ok) ==
    [pc |-> "check_ffmpeg",
     raised |-> IF ok THEN "none" ELSE "RuntimeError: Video download failed",
     video_path |-> IF ok THEN VideoFile ELSE None]

AfterDownload(ok) ==
    IF ok
    THEN [pc |-> "check_ffmpeg", raised |-> "none", video_path |-> VideoFile]
    ELSE [pc |-> "failed", raised |-> "RuntimeError: Video download failed",
          video_path |-> None]

\* video_path, _ = download_video(url, ...): a path, or RuntimeError
WebDownloadVideo ==
    /\ flow = "web" /\ pc = "download_video"
    /\ \E ok \in BOOLEAN :
          /\ pc' = AfterDownload(ok).pc
          /\ raised' = AfterDownload(ok).raised
          /\ video_path' = AfterDownload(ok).video_path
    /\ UNCHANGED <<flow, button, ffmpeg_available, info, description,
                   chapters, i, jobs, folder, archive>>
    /\ UNCHANGED <<pureVars, dlVars>>

\* split_all_chapters up to the loop: check_ffmpeg() again, the new folder
WebSplitSetup ==
    /\ flow = "web" /\ pc = "check_ffmpeg"
    /\ \/ pc' = "split" /\ raised' = "none"
       \/ pc' = "failed" /\ raised' = "RuntimeError: ffmpeg is required"
    /\ i' = 0 /\ folder' = {}
    /\ UNCHANGED <<flow, button, ffmpeg_available, info, description,
                   chapters, video_path, jobs, archive>>
    /\ UNCHANGED <<pureVars, dlVars>>

\* where the loop goes after subprocess.run(..., check=True) under
\* try/except CalledProcessError: continue
AfterRunPropagating(exit) ==
    IF exit = 0 THEN [pc |-> "split", raised |-> "none"]
    ELSE [pc |-> "failed", raised |-> "CalledProcessError"]

AfterRun(exit) == [pc |-> "split", raised |-> "none"]

\* one iteration of the loop of split_all_chapters
WebSplitStep ==
    /\ flow = "web" /\ pc = "split" /\ i < Len(chapters)
    /\ LET k == i + 1
           title == chapters[k].title
           start == chapters[k].start
           end == RangeEnd(chapters, k)
           safe_title == SafeTitle(title)
       IN  \E exit \in ExitCodes, partial \in BOOLEAN :
              /\ jobs' = Append(jobs, Job(k, title, start, end, None,
                                         WebDurationArg(end, start),
                                         safe_title, exit))
              /\ folder' = FolderAfter(folder, OutputFile(k, safe_title),
                                       exit, partial)
              /\ pc' = AfterRun(exit).pc
              /\ raised' = AfterRun(exit).raised
    /\ i' = i + 1
    /\ UNCHANGED <<flow, button, ffmpeg_available, info, description,
                   chapters, video_path, archive>>
    /\ UNCHANGED <<pureVars, dlVars>>

\* shutil.make_archive over chapters_folder; the zip path is returned and
\* stored in the session state
WebPackage ==
    /\ flow = "web" /\ pc = "split" /\ i = Len(chapters)
    /\ archive' = Some(folder)
    /\ pc' = "done"
    /\ UNCHANGED <<flow, button, ffmpeg_available, info, description,
                   chapters, video_path, i, jobs, folder, raised>>
    /\ UNCHANGED <<pureVars, dlVars>>

\* ------------------------------------------------------------------------
\* yt_download.py: download_youtube_video
\* ------------------------------------------------------------------------
\* extract_info(url, download=True), prepare_filename, info.get
CliDownload ==
    /\ flow = "cli" /\ pc = "cli_download"
    /\ \/ /\ video_path' = VideoFile
          /\ description' = InfoGetDescription(info)
          /\ pc' = "cli_extract" /\ raised' = "none"
       \/ /\ video_path' = None /\ description' = description
          /\ pc' = "raised" /\ raised' = "DownloadError"
    /\ UNCHANGED <<flow, button, ffmpeg_available, info, chapters, i, jobs,
                   folder, archive>>
    /\ UNCHANGED <<pureVars, dlVars>>

\* chapters = extract_chapters(description); the "no chapters" return
CliExtractChapters ==
    /\ flow = "cli" /\ pc = "cli_extract"
    /\ LET r == extract_chapters(description)
       IN  IF r.raised # "none"
           THEN pc' = "raised" /\ raised' = r.raised /\ chapters' = chapters
           ELSE /\ chapters' = r.value[1] /\ raised' = raised
                /\ pc' = IF r.value[1] = <<>> THEN "no_chapters"
                         ELSE "cli_split"
    /\ i' = 0
    /\ UNCHANGED <<flow, button, ffmpeg_available, info, description,
                   video_path, jobs, folder, archive>>
    /\ UNCHANGED <<pureVars, dlVars>>

\* one iteration of the splitting loop: subprocess.run(cmd) without check
CliSplitStep ==
    /\ flow = "cli" /\ pc = "cli_split" /\ i < Len(chapters)
    /\ LET k == i + 1
           title == chapters[k].title
           start_time == chapters[k].start
           duration == CliDuration(chapters, k)
       IN  IF ~ffmpeg_available
           THEN /\ pc' = "raised" /\ raised' = "FileNotFoundError: ffmpeg"
                /\ UNCHANGED <<i, jobs, folder>>
           ELSE \E exit \in ExitCodes, partial \in BOOLEAN :
                   /\ jobs' = Append(jobs, Job(k, title, start_time, None,
                                              duration,
                                              CliDurationArg(duration),
                                              title, exit))
                   /\ folder' = FolderAfter(folder, OutputFile(k, title),
                                            exit, partial)
                   /\ i' = i + 1
                   /\ UNCHANGED <<pc, raised>>
    /\ UNCHANGED <<flow, button, ffmpeg_available, info, description,
                   chapters, video_path, archive>>
    /\ UNCHANGED <<pureVars, dlVars>>

\* the loop is over: the final print, and the function returns
CliReturn ==
    /\ flow = "cli" /\ pc = "cli_split" /\ i = Len(chapters)
    /\ pc' = "done"
    /\ UNCHANGED <<flow, button, ffmpeg_available, info, description,
                   chapters, video_path, i, jobs, folder, archive, raised>>
    /\ UNCHANGED <<pureVars, dlVars>>

Next ==
    \/ WebFetchInfo
    \/ WebExtractChapters
    \/ WebFullVideo
    \/ WebChaptersSection
    \/ WebDownloadVideo
    \/ WebSplitSetup
    \/ WebSplitStep
    \/ WebPackage
    \/ CliDownload
    \/ CliExtractChapters
    \/ CliSplitStep
    \/ CliReturn

Spec == Init /\ [][Next]_vars

\* ------------------------------------------------------------------------
\* Properties of the pipeline
\* ------------------------------------------------------------------------
InLoop == pc \in {"split", "cli_split"}
RetrievalFailed ==
    raised \in {"DownloadError", "RuntimeError: Video download failed"}
HasForbiddenChar(str) == \E k \in 1..Len(str) : str[k] \in ForbiddenChars

\* C1: the runner issues exactly one extraction invocation per range, in
\* list order, whatever the exit codes: a non-zero exit never raises and
\* never stops the loop, which goes on to the next range and, after the last
\* one, to packaging and a normal return.
C1_OneInvocationPerRange ==
    /\ \A k \in 1..Len(jobs) :
          /\ jobs[k].index = k
          /\ jobs[k].title = chapters[k].title
          /\ jobs[k].start = chapters[k].start
    /\ Len(jobs) <= Len(chapters)
    /\ jobs # <<>> =>
          /\ raised = "none"
          /\ pc \in {"split", "cli_split", "done"}
    /\ InLoop /\ (flow = "web" \/ ffmpeg_available) =>
          /\ Len(jobs) = i
          /\ ENABLED (WebSplitStep \/ WebPackage \/ CliSplitStep \/ CliReturn)
    /\ pc = "done" =>
          /\ Len(jobs) = Len(chapters)
          /\ flow = "web" => archive # None

C1_Witness ==
    /\ flow = "web" /\ pc = "done" /\ archive # None
    /\ Len(jobs) = 3
    /\ jobs[1].exit # 0 /\ jobs[2].exit = 0 /\ jobs[3].exit # 0

\* C2: the archive holds exactly the output files of the ranges whose
\* extraction exited zero, also when a failed extraction left a file behind.
C2_ArchiveExactlySuccessful ==
    archive # None =>
        archive[1] = {jobs[k].output_file :
                        k \in {j \in 1..Len(jobs) : jobs[j].exit = 0}}

\* C3: for n chapters the loop builds n ranges with ordinals 1..n in chapter
\* order; range k starts at chapter k's start offset; every range but the
\* last ends at the next chapter's start offset and the last one is open;
\* no range is built for the empty chapter list.
C3_RangesFollowChapters ==
    /\ \A k \in 1..Len(jobs) :
          /\ jobs[k].index = k
          /\ jobs[k].start = chapters[k].start
          /\ k < Len(chapters) =>
                IF flow = "web"
                THEN jobs[k].end = Some(chapters[k + 1].start)
                ELSE /\ jobs[k].duration # None
                     /\ jobs[k].start + jobs[k].duration[1]
                           = chapters[k + 1].start
          /\ k = Len(chapters) =>
                jobs[k].end = None /\ jobs[k].duration = None
    /\ pc = "done" => Len(jobs) = Len(chapters)
    /\ chapters = <<>> => jobs = <<>>

C3_Witness ==
    /\ flow = "web" /\ pc = "done"
    /\ Len(chapters) = 3
    /\ chapters[1].start = 60 /\ chapters[2].start = 0 /\ chapters[3].start = 60
    /\ jobs[1].end = Some(0) /\ jobs[2].end = Some(60) /\ jobs[3].end = None

\* C4: every extraction invocation carries the range's start and, whenever
\* the range's end is defined (end = 0 and end = start included), a duration
\* argument of end - start; only the last range has no duration argument.
C4_DurationArgument ==
    \A k \in 1..Len(jobs) :
        /\ jobs[k].ss_arg = chapters[k].start
        /\ k < Len(chapters) =>
              jobs[k].t_arg = Some(chapters[k + 1].start - chapters[k].start)
        /\ k = Len(chapters) => jobs[k].t_arg = None

\* C7: an empty or missing description (no description key, a null value,
\* or the empty text) gives the empty chapter list without an error, and
\* the run ends in the no-chapters state with no extraction invocation.
DescriptionEmptyOrMissing ==
    \/ ~info.has_description
    \/ info.description = None
    \/ info.description = Some(<<>>)

C7_EmptyDescriptionNoChapters ==
    DescriptionEmptyOrMissing =>
        /\ raised \in {"none", "fetch_info failed", "DownloadError"}
        /\ chapters = <<>> /\ jobs = <<>>
        /\ pc \in {"fetch_info", "stopped", "extract", "full_video",
                   "chapters_section", "cli_download", "cli_extract",
                   "raised", "no_chapters"}

\* C8: the title fragment of every output file name has none of the
\* characters \ / * ? : " < > | and at most 50 characters, and the name is
\* the zero-padded 1-based ordinal, " - ", the fragment and the extension.
C8_SafeOutputNames ==
    \A k \in 1..Len(jobs) :
        /\ ~HasForbiddenChar(jobs[k].fragment)
        /\ Len(jobs[k].fragment) <= FilenameLimit
        /\ jobs[k].output_file =
              Pad2(k) \o <<" ", "-", " ">> \o jobs[k].fragment
                      \o <<".", "m", "p", "4">>

\* C9: no extraction invocation is issued before media retrieval has
\* yielded a local file; once retrieval has failed, the run has no
\* extraction invocation and no archive.
C9_RetrievalBeforeExtraction ==
    /\ jobs # <<>> => video_path # None
    /\ InLoop => video_path # None
    /\ RetrievalFailed => jobs = <<>> /\ archive = None /\ ~InLoop
    /\ video_path = None => archive = None

C9_Witness ==
    /\ flow = "web" /\ button = "chapters_zip" /\ chapters # <<>>
    /\ raised = "RuntimeError: Video download failed"
    /\ pc = "failed" /\ jobs = <<>> /\ archive = None

\* ========================================================================
\* download_video: the retry loop
\* ========================================================================
max_retries == 3

\* what clear_yt_dlp_cache meets: whether ydl.cache.remove() raises, whether
\* the yt-dlp directory under the temporary directory exists, whether
\* removing it raises, whether one of the common cache directories exists,
\* whether removing that one raises
ClearEnvs ==
    [api_raises : BOOLEAN, tmp_cache_exists : BOOLEAN,
     rmtree_raises : BOOLEAN, common_cache_exists : BOOLEAN,
     common_rmtree_raises : BOOLEAN]

\* clear_yt_dlp_cache(): Some(success) for a returned (success, message)
\* tuple; None when the function ends without a return statement (method 1
\* raised and method 2 found no directory to remove)
clear_yt_dlp_cache(env) ==
    IF ~env.api_raises THEN Some(TRUE)
    ELSE IF ~env.tmp_cache_exists THEN None
    ELSE IF ~env.rmtree_raises THEN Some(TRUE)
    ELSE IF env.common_cache_exists /\ ~env.common_rmtree_raises
    THEN Some(TRUE)
    ELSE Some(FALSE)

\* what one download in the with block comes to: the file is found and
\* returned, or an exception whose message holds "403" or does not
DownloadOutcomes == {"success", "403", "other error", "file not found"}

\* if attempt > 0: the cache is cleared before the download
ClearsBeforeFromThird(a) == a > 1

ClearsBefore(a) == a > 0

\* the except block: "continue" or "raise"
ExceptBranch(has403, a) ==
    IF has403 /\ a < max_retries - 1 THEN "continue"
    ELSE IF a = max_retries - 1 THEN "raise"
    ELSE "continue"

Attempt(a, cleared, downloaded, outcome) ==
    [attempt |-> a, cleared |-> cleared, downloaded |-> downloaded,
     outcome |-> outcome]

InitDownload ==
    /\ PipeOff /\ PureIdle
    /\ clear_cache_first \in BOOLEAN
    /\ dl_pc = "start" /\ attempt = 0 /\ attempts = <<>>
    /\ clear_calls = 0 /\ dl_result = None

\* the function up to the loop: the optional cache clear (its result is
\* unpacked outside any try block), the temporary directory, the options
DownloadStart ==
    /\ dl_pc = "start"
    /\ IF clear_cache_first
       THEN \E env \in ClearEnvs :
               /\ clear_calls' = clear_calls + 1
               /\ IF clear_yt_dlp_cache(env) = None
                  THEN /\ dl_pc' = "raised"
                       /\ dl_result' = Raise("TypeError: cannot unpack None")
                  ELSE dl_pc' = "loop" /\ dl_result' = dl_result
       ELSE dl_pc' = "loop" /\ UNCHANGED <<clear_calls, dl_result>>
    /\ UNCHANGED <<clear_cache_first, attempt, attempts>>
    /\ UNCHANGED <<pipeVars, pureVars>>

\* one iteration of  for attempt in range(max_retries)  with its try and
\* except blocks, and the raise after the loop when the range is used up
DownloadAttempt ==
    /\ dl_pc = "loop" /\ attempt < max_retries
    /\ \E env \in ClearEnvs, outcome \in DownloadOutcomes :
          LET cleared == ClearsBefore(attempt)
              unpack_fails == cleared /\ clear_yt_dlp_cache(env) = None
              downloaded == ~unpack_fails
              result == IF unpack_fails THEN "unpack error" ELSE outcome
              branch == ExceptBranch(result = "403", attempt)
          IN  /\ clear_calls' = IF cleared THEN clear_calls + 1
                                ELSE clear_calls
              /\ attempts' = Append(attempts,
                                Attempt(attempt, cleared, downloaded, result))
              /\ IF result = "success"
                 THEN /\ dl_pc' = "returned"
                      /\ dl_result' = Returned("video")
                      /\ attempt' = attempt
                 ELSE IF branch = "raise"
                 THEN /\ dl_pc' = "raised"
                      /\ dl_result' =
                            Raise("RuntimeError: Video download failed")
                      /\ attempt' = attempt
                 ELSE IF attempt + 1 < max_retries
                 THEN /\ dl_pc' = "loop" /\ attempt' = attempt + 1
                      /\ dl_result' = dl_result
                 ELSE /\ dl_pc' = "raised"
                      /\ dl_result' =
                            Raise("RuntimeError: All download attempts failed")
                      /\ attempt' = attempt
    /\ UNCHANGED clear_cache_first
    /\ UNCHANGED <<pipeVars, pureVars>>

NextDownload == DownloadStart \/ DownloadAttempt

SpecDownload == InitDownload /\ [][NextDownload]_vars

\* ------------------------------------------------------------------------
\* C11: whatever the outcome of each attempt (success, a 403 error, another
\* error), download_video makes at most 3 attempts, returns the file path at
\* the first attempt that succeeds and makes no attempt after it, clears the
\* yt-dlp cache before every attempt after the first, and raises a
\* RuntimeError exactly when all 3 attempts have failed.
\* ------------------------------------------------------------------------
RaisedRuntimeError ==
    /\ dl_result # None
    /\ dl_result.raised \in {"RuntimeError: Video download failed",
                             "RuntimeError: All download attempts failed"}

AllThreeFailed ==
    /\ Len(attempts) = 3
    /\ \A k \in 1..3 : attempts[k].outcome # "success"

C11_DownloadRetries ==
    /\ Len(attempts) <= 3
    /\ \A k \in 1..Len(attempts) :
          /\ attempts[k].attempt = k - 1
          /\ k > 1 => attempts[k].cleared
          /\ attempts[k].outcome = "success" =>
                /\ k = Len(attempts)
                /\ dl_pc = "returned"
                /\ dl_result = Returned("video")
    /\ clear_calls >= Len(attempts) - 1
    /\ dl_pc = "returned" =>
          /\ attempts # <<>>
          /\ attempts[Len(attempts)].outcome = "success"
    /\ dl_pc = "loop" => Len(attempts) = attempt /\ attempt < 3
    /\ RaisedRuntimeError <=> AllThreeFailed

C11_Witness ==
    /\ dl_pc = "returned" /\ dl_result = Returned("video")
    /\ Len(attempts) = 3
    /\ attempts[1].outcome = "403" /\ attempts[2].outcome = "other error"
    /\ attempts[3].outcome = "success"
    /\ attempts[2].cleared /\ attempts[3].cleared /\ clear_calls = 2

====
